---- MODULE Spec2Model ----
(***************************************************************************)
(* Model of the treasury transfer indexer of src/axieScore.ts:             *)
(* buildRangesForward, chunkArray, computeContributor and indexRange,      *)
(* together with the provider (getLogs, getTransaction) and the store      *)
(* (treasuryTransfer.upsert) that indexRange drives.                       *)
(***************************************************************************)
EXTENDS Integers, Sequences, FiniteSets, Bags, TLC

VARIABLES
    fromBlock,        \* indexRange's fromBlock argument
    toBlock,          \* indexRange's toBlock argument
    run,              \* number of the current invocation of indexRange
    pc,               \* where the async function indexRange is suspended
    i,                \* index of the current batch (1-based)
    fetch,            \* per window: state of its getLogs promise
    cursor,           \* index of the log being handled in the batch's results
    pending,          \* the create payload of the upsert in flight
    totalWeiByToken,  \* the run's Map symbol -> accumulated raw amount
    totalRecords,     \* the run's record count
    ledger,           \* the treasuryTransfer table: a bag of rows
    inserted,         \* history: rows this run created
    faults,           \* history: batches of this run with a failed lookup or write
    provDet,          \* history: this run's lookups were all answered from the chain
    prevRun,          \* history: ledger and totals at the end of the previous run
    reversed,         \* windows whose logs the provider lists last to first
    pFrom, pTo, pSpan, pSize,        \* inputs of buildRangesForward, chunkArray
    pAmount, pDecimals,              \* inputs of formatUnits
    pOut                             \* result of the pure helpers

vars == <<fromBlock, toBlock, run, pc, i, fetch, cursor, pending,
          totalWeiByToken, totalRecords, ledger, inserted, faults, provDet,
          prevRun, reversed, pFrom, pTo, pSpan, pSize, pAmount, pDecimals,
          pOut>>

indexerVars == <<fromBlock, toBlock, run, pc, i, fetch, cursor, pending,
                 totalWeiByToken, totalRecords, ledger, inserted, faults,
                 provDet, prevRun, reversed>>

helperVars == <<pFrom, pTo, pSpan, pSize, pAmount, pDecimals, pOut>>

----------------------------------------------------------------------------
(* Configuration *)

BLOCK_SPAN == 400
MAX_CONCURRENCY == 2
FROM_BLOCK == 16377000

\* Bounds of the model
MaxWindows == 4
MaxRuns == 2
MaxBlock == 6
MaxSpan == 3
MaxSize == 3
MaxAmount == 120
MaxDecimals == 3

\* An address is its 20 bytes (id) and the letter case it is written in.
Addr(id, form) == [id |-> id, form |-> form]

ToLowerCase(a) == [a EXCEPT !.form = "lower"]

\* ethers.getAddress: the checksummed (mixed-case) form
GetAddress(a) == [a EXCEPT !.form = "checksum"]

TOKENS ==
    << [symbol |-> "AXS",  address |-> Addr("axs", "lower"),  decimals |-> 18],
       [symbol |-> "WETH", address |-> Addr("weth", "lower"), decimals |-> 18] >>

Symbols == {TOKENS[n].symbol : n \in DOMAIN TOKENS}

TREASURY_ADDRESS == ToLowerCase(Addr("treasury", "lower"))

PROXY_ADDRESSES == << ToLowerCase(Addr("proxy", "lower")) >>

TRANSFER_TOPIC == "Transfer(address,address,uint256)"

\* Array.prototype.includes
Includes(arr, x) == \E k \in DOMAIN arr : arr[k] = x

----------------------------------------------------------------------------
(* Helpers *)

Min(a, b) == IF a < b THEN a ELSE b

\* arr.slice(lo, hi) over 0-based indexes, hi clamped to the length
Slice(arr, lo, hi) == SubSeq(arr, lo + 1, Min(hi, Len(arr)))

RECURSIVE ChunkLoop(_, _, _)
ChunkLoop(arr, size, n) ==
    IF n < Len(arr)
    THEN <<Slice(arr, n, n + size)>> \o ChunkLoop(arr, size, n + size)
    ELSE <<>>

\* the loop that stops in front of a group it cannot fill
RECURSIVE ChunkLoopWhole(_, _, _)
ChunkLoopWhole(arr, size, n) ==
    IF n + size <= Len(arr)
    THEN <<Slice(arr, n, n + size)>> \o ChunkLoopWhole(arr, size, n + size)
    ELSE <<>>

chunkArrayWhole(arr, size) == ChunkLoopWhole(arr, size, 0)

chunkArray(arr, size) == ChunkLoop(arr, size, 0)

RECURSIVE RangesLoop(_, _, _)
RangesLoop(start, to, span) ==
    IF start <= to
    THEN LET end == Min(start + span - 1, to)
         IN  <<[fromBlock |-> start, toBlock |-> end]>>
                 \o RangesLoop(end + 1, to, span)
    ELSE <<>>

\* the loop with an off-by-one window end
RECURSIVE RangesLoopWide(_, _, _)
RangesLoopWide(start, to, span) ==
    IF start <= to
    THEN LET end == Min(start + span, to)
         IN  <<[fromBlock |-> start, toBlock |-> end]>>
                 \o RangesLoopWide(end + 1, to, span)
    ELSE <<>>

buildRangesForwardWide(from, to, span) == RangesLoopWide(from, to, span)

buildRangesForward(from, to, span) == RangesLoop(from, to, span)

\* Decimal strings are sequences of one-character strings.
Digit(k) == <<"0", "1", "2", "3", "4", "5", "6", "7", "8", "9">>[k + 1]

\* BigInt.prototype.toString(): the decimal digits, no leading zero
RECURSIVE toDecimalString(_)
toDecimalString(n) ==
    IF n < 10 THEN <<Digit(n)>>
    ELSE toDecimalString(n \div 10) \o <<Digit(n % 10)>>

Zeros(k) == [n \in 1..k |-> "0"]

\* while (str.length <= decimals) str = "0" + str
PadWhole(str, decimals) ==
    IF Len(str) <= decimals
    THEN Zeros(decimals + 1 - Len(str)) \o str
    ELSE str

\* the decimal point goes `decimals` digits from the end
InsertPoint(str, decimals) ==
    LET index == Len(str) - decimals
    IN  SubSeq(str, 1, index) \o <<".">> \o SubSeq(str, index + 1, Len(str))

\* leading zeros of the whole part go, one digit stays
RECURSIVE TrimWhole(_)
TrimWhole(str) ==
    IF str[1] = "0" /\ str[2] # "."
    THEN TrimWhole(Tail(str))
    ELSE str

\* trailing zeros of the fraction go, one digit stays
RECURSIVE TrimFraction(_)
TrimFraction(str) ==
    IF str[Len(str)] = "0" /\ str[Len(str) - 1] # "."
    THEN TrimFraction(SubSeq(str, 1, Len(str) - 1))
    ELSE str

\* trailing zeros dropped from the digits before the point is placed
RECURSIVE TrimDigits(_)
TrimDigits(str) ==
    IF Len(str) > 1 /\ str[Len(str)] = "0"
    THEN TrimDigits(SubSeq(str, 1, Len(str) - 1))
    ELSE str

FormatUnitsTrimFirst(value, decimals) ==
    IF decimals = 0 THEN toDecimalString(value)
    ELSE TrimWhole(InsertPoint(PadWhole(TrimDigits(toDecimalString(value)),
                                        decimals), decimals))

\* ethers.formatUnits: the fixed-point string of value / 10^decimals
FormatUnits(value, decimals) ==
    IF decimals = 0 THEN toDecimalString(value)
    ELSE TrimFraction(TrimWhole(InsertPoint(PadWhole(toDecimalString(value),
                                                    decimals), decimals)))

\* topic (32 bytes) -> checksummed address: the last 20 bytes, getAddress'd
topicToAddress(topic) == GetAddress(Addr(topic.id, "lower"))

\* the contributor with the proxy test on the address as written
computeContributorCaseSensitive(transferFrom, txFrom) ==
    IF Includes(PROXY_ADDRESSES, transferFrom)
    THEN GetAddress(txFrom)
    ELSE transferFrom

computeContributor(transferFrom, txFrom) ==
    LET fromLower == ToLowerCase(transferFrom)
    IN  IF Includes(PROXY_ADDRESSES, fromLower)
        THEN GetAddress(txFrom)
        ELSE transferFrom

----------------------------------------------------------------------------
(* The chain the provider serves: Transfer logs to the treasury, in block   *)
(* order.  Blocks are offsets from FROM_BLOCK, one BLOCK_SPAN per window.   *)

Topic(id) == Addr(id, "topic")

Log(off, tx, idx, token, from, value) ==
    [ address         |-> Addr(token, "checksum"),
      topics          |-> <<TRANSFER_TOPIC, Topic(from), Topic("treasury")>>,
      data            |-> value,
      transactionHash |-> tx,
      index           |-> idx,
      blockNumber     |-> FROM_BLOCK + off ]

\* a log without its indexed topics: topicToAddress(log.topics[1]) throws
BadLog(off, tx, idx, token) ==
    [ address         |-> Addr(token, "checksum"),
      topics          |-> <<TRANSFER_TOPIC>>,
      data            |-> 0,
      transactionHash |-> tx,
      index           |-> idx,
      blockNumber     |-> FROM_BLOCK + off ]

Chain ==
    << Log(0, "tA", 0, "axs", "proxy", 5),
       Log(10, "tA", 1, "weth", "u", 7),
       Log(BLOCK_SPAN, "tB", 0, "other", "u", 9),
       Log(BLOCK_SPAN, "tB", 1, "axs", "u", 3),
       BadLog(2 * BLOCK_SPAN - 1, "tC", 0, "weth"),
       Log(2 * BLOCK_SPAN, "tD", 0, "weth", "proxy", 2) >>

\* tx.from of each transaction of the chain
TxSender ==
    [ tA |-> Addr("x", "checksum"), tB |-> Addr("u", "checksum"),
      tC |-> Addr("u", "checksum"), tD |-> Addr("y", "checksum") ]

\* a transaction the provider also serves in a second version, sent by
\* someone else (a reorganised block)
StrayTxs == {"tA"}

StraySender == Addr("z", "checksum")

Reverse(logs) == [n \in 1..Len(logs) |-> logs[Len(logs) + 1 - n]]

\* provider.getLogs: the window's logs, in the order the provider lists them
getLogs(r) ==
    LET logs == SelectSeq(Chain, LAMBDA l : r.fromBlock <= l.blockNumber
                                                /\ l.blockNumber <= r.toBlock)
    IN  IF r.fromBlock \in reversed THEN Reverse(logs) ELSE logs

\* a lookup that falls back to the first token when the address is unknown
TokenOfDefault(log) ==
    LET hit == {n \in DOMAIN TOKENS :
                    ToLowerCase(TOKENS[n].address) = ToLowerCase(log.address)}
    IN  IF hit = {} THEN 1 ELSE CHOOSE n \in hit : TRUE

\* tokenAddrMap.get(log.address.toLowerCase()): 0 stands for undefined
TokenOf(log) ==
    LET hit == {n \in DOMAIN TOKENS :
                    ToLowerCase(TOKENS[n].address) = ToLowerCase(log.address)}
    IN  IF hit = {} THEN 0 ELSE CHOOSE n \in hit : TRUE

Malformed(log) == Len(log.topics) < 3

----------------------------------------------------------------------------
(* indexRange *)

Ranges == buildRangesForward(fromBlock, toBlock, BLOCK_SPAN)

Batches == chunkArray(Ranges, MAX_CONCURRENCY)

RangeSet == {Ranges[n] : n \in DOMAIN Ranges}

InBatch(b, r) == b \in DOMAIN Batches /\ Includes(Batches[b], r)

\* the logs of Promise.all's results, in the order the two for loops visit them
RECURSIVE Flatten(_)
Flatten(ranges) ==
    IF ranges = <<>> THEN <<>>
    ELSE getLogs(Head(ranges)) \o Flatten(Tail(ranges))

Results(b) == Flatten(Batches[b])

\* first log at or after n that is of a tracked token (the others `continue`)
RECURSIVE SkipUntracked(_, _)
SkipUntracked(logs, n) ==
    IF n > Len(logs) THEN n
    ELSE IF TokenOf(logs[n]) = 0 THEN SkipUntracked(logs, n + 1)
    ELSE n

\* where control goes when an error reaches the batch's catch: it is logged
\* and the loop body goes on to sleep
OnBatchErrorRethrow == "threw"

OnBatchError == "sleep"

NoTotals == [sym \in Symbols |-> 0]

\* an accumulation whose read of the previous total is lost
AccumulateLost(totals, symbol, valueWei) ==
    [totals EXCEPT ![symbol] = valueWei]

\* prev + valueWei stored under the token's symbol
Accumulate(totals, symbol, valueWei) ==
    [totals EXCEPT ![symbol] = @ + valueWei]

SameKey(a, b) == a.txHash = b.txHash /\ a.logIndex = b.logIndex

Rows(table) == BagToSet(table)

Insert(table, rec) == table (+) SetToBag({rec})

\* an upsert that writes the create payload over the row it finds
UpsertOverwrite(table, rec) ==
    LET kept == {row \in Rows(table) : ~SameKey(row, rec)}
    IN  Insert([row \in kept |-> table[row]], rec)

\* a plain create
UpsertAlwaysCreate(table, rec) == Insert(table, rec)

\* an upsert whose unique key is the transaction hash alone
UpsertByTxHash(table, rec) ==
    IF \E row \in Rows(table) : row.txHash = rec.txHash
    THEN table
    ELSE Insert(table, rec)

\* treasuryTransfer.upsert({where: txHash_logIndex, update: {}, create})
Upsert(table, rec) ==
    IF \E row \in Rows(table) : SameKey(row, rec)
    THEN table
    ELSE Insert(table, rec)

IsProxyUsed(transferFrom) ==
    Includes(PROXY_ADDRESSES, ToLowerCase(transferFrom))

\* the create payload built from a log and its transaction
Record(log, tx) ==
    LET token        == TOKENS[TokenOf(log)]
        transferFrom == topicToAddress(log.topics[2])
        transferTo   == topicToAddress(log.topics[3])
        valueWei     == log.data
        txFrom       == GetAddress(tx.from)
    IN  [ txHash       |-> log.transactionHash,
          logIndex     |-> log.index,
          blockNumber  |-> log.blockNumber,
          tokenSymbol  |-> token.symbol,
          tokenAddress |-> token.address,
          treasury     |-> transferTo,
          proxyUsed    |-> IsProxyUsed(transferFrom),
          txFrom       |-> txFrom,
          transferFrom |-> transferFrom,
          transferTo   |-> transferTo,
          contributor  |-> computeContributor(transferFrom, txFrom),
          amountRaw       |-> toDecimalString(valueWei),
          amountFormatted |-> FormatUnits(valueWei, token.decimals) ]

NoRecord == [txHash |-> "none"]

\* a batch loop whose index is not incremented
LoopHeadNoIncrement(b) ==
    LET same == IF b > 1 THEN b - 1 ELSE b
    IN  /\ i' = same
        /\ IF same <= Len(Batches)
           THEN /\ fetch' = [r \in RangeSet |->
                                IF InBatch(same, r) THEN "pending"
                                ELSE fetch[r]]
                /\ pc' = "await"
           ELSE /\ fetch' = fetch
                /\ pc' = "done"

\* the top of the for loop over batches: issue the batch's getLogs calls and
\* await them all, or leave the loop and return the totals
LoopHead(b) ==
    /\ i' = b
    /\ IF b <= Len(Batches)
       THEN /\ fetch' = [r \in RangeSet |->
                            IF InBatch(b, r) THEN "pending" ELSE fetch[r]]
            /\ pc' = "await"
       ELSE /\ fetch' = fetch
            /\ pc' = "done"

\* the two for loops from log n of the results up to the next await
Resume(n, fs) ==
    LET logs == Results(i)
        m    == SkipUntracked(logs, n)
    IN  IF m > Len(logs)
        THEN pc' = "sleep" /\ cursor' = 0 /\ faults' = fs
        ELSE IF Malformed(logs[m])
        THEN pc' = OnBatchError /\ cursor' = 0 /\ faults' = fs
        ELSE pc' = "tx" /\ cursor' = m /\ faults' = fs

CurrentLog == Results(i)[cursor]

\* toBlock arguments: an inverted range, one block, one block more than a
\* window, and whole windows
ToBlocks ==
    {FROM_BLOCK - 1, FROM_BLOCK, FROM_BLOCK + BLOCK_SPAN}
        \cup {FROM_BLOCK + n * BLOCK_SPAN - 1 : n \in 1..MaxWindows}

\* nothing is remembered of a previous run that was not free of failures
NoPrevRun ==
    [ledger |-> EmptyBag, totals |-> NoTotals, records |-> 0,
     clean |-> FALSE]

HelpersIdle ==
    /\ pFrom = 0 /\ pTo = 0 /\ pSpan = 1 /\ pSize = 1
    /\ pAmount = 0 /\ pDecimals = 0
    /\ pOut = <<"idle">>

\* the provider lists every window's logs in block order
Init ==
    /\ reversed = {}
    /\ fromBlock = FROM_BLOCK
    /\ toBlock \in ToBlocks
    /\ run = 1
    /\ pc = "call"
    /\ i = 0
    /\ fetch = [r \in RangeSet |-> "none"]
    /\ cursor = 0
    /\ pending = NoRecord
    /\ totalWeiByToken = NoTotals
    /\ totalRecords = 0
    /\ ledger = EmptyBag
    /\ inserted = {}
    /\ faults = {}
    /\ provDet = TRUE
    /\ prevRun = NoPrevRun
    /\ HelpersIdle

\* indexRange is called: ranges and batches are built, the loop is entered
CallIndexRange ==
    /\ pc = "call"
    /\ LoopHead(1)
    /\ UNCHANGED <<fromBlock, toBlock, run, cursor, pending, totalWeiByToken,
                   totalRecords, ledger, inserted, faults, provDet, prevRun>>
    /\ UNCHANGED <<reversed, helperVars>>

Awaited(r) == pc = "await" /\ InBatch(i, r)

\* a getLogs call of the awaited batch resolves; when it is the last one,
\* Promise.all resolves and the results are processed up to the first await
SettleOk(r) ==
    /\ fetch[r] = "pending"
    /\ Awaited(r)
    /\ fetch' = [fetch EXCEPT ![r] = "ok"]
    /\ IF \A q \in RangeSet : InBatch(i, q) /\ q # r => fetch[q] = "ok"
       THEN Resume(1, faults)
       ELSE UNCHANGED <<pc, cursor, faults>>
    /\ UNCHANGED <<fromBlock, toBlock, run, i, pending, totalWeiByToken,
                   totalRecords, ledger, inserted, provDet, prevRun>>
    /\ UNCHANGED <<reversed, helperVars>>

\* a rejected getLogs call that is tolerated: the batch's results are
\* processed once its other calls have resolved
SettleFailTolerated(r) ==
    /\ fetch[r] = "pending"
    /\ Awaited(r)
    /\ fetch' = [fetch EXCEPT ![r] = "fail"]
    /\ IF \A q \in RangeSet : InBatch(i, q) /\ q # r => fetch[q] = "ok"
       THEN Resume(1, faults)
       ELSE UNCHANGED <<pc, cursor, faults>>
    /\ UNCHANGED <<fromBlock, toBlock, run, i, pending, totalWeiByToken,
                   totalRecords, ledger, inserted, provDet, prevRun>>
    /\ UNCHANGED <<reversed, helperVars>>

\* a getLogs call of the awaited batch rejects: Promise.all rejects at once
\* and the batch's catch runs
SettleFail(r) ==
    /\ fetch[r] = "pending"
    /\ Awaited(r)
    /\ fetch' = [fetch EXCEPT ![r] = "fail"]
    /\ pc' = OnBatchError
    /\ UNCHANGED <<fromBlock, toBlock, run, i, cursor, pending,
                   totalWeiByToken, totalRecords, ledger, inserted, faults,
                   provDet, prevRun>>
    /\ UNCHANGED <<reversed, helperVars>>

\* a getLogs call settles after its Promise.all has rejected: nothing reads
\* its outcome
SettleLate(r) ==
    /\ fetch[r] = "pending"
    /\ ~Awaited(r)
    /\ fetch' = [fetch EXCEPT ![r] = "late"]
    /\ UNCHANGED <<fromBlock, toBlock, run, pc, i, cursor, pending,
                   totalWeiByToken, totalRecords, ledger, inserted, faults,
                   provDet, prevRun>>
    /\ UNCHANGED <<reversed, helperVars>>

\* getTransaction rejects: the error reaches the batch's catch
TxThrow ==
    /\ pc = "tx"
    /\ pc' = OnBatchError
    /\ cursor' = 0
    /\ faults' = faults \cup {i}
    /\ UNCHANGED <<fromBlock, toBlock, run, i, fetch, pending,
                   totalWeiByToken, totalRecords, ledger, inserted, provDet,
                   prevRun>>
    /\ UNCHANGED <<reversed, helperVars>>

\* a null transaction handled like a rejected lookup
TxNullAsThrow ==
    /\ pc = "tx"
    /\ pc' = OnBatchError
    /\ cursor' = 0
    /\ faults' = faults \cup {i}
    /\ UNCHANGED <<fromBlock, toBlock, run, i, fetch, pending,
                   totalWeiByToken, totalRecords, ledger, inserted, provDet,
                   prevRun>>
    /\ UNCHANGED <<reversed, helperVars>>

\* getTransaction resolves to null: the log is skipped
TxNull ==
    /\ pc = "tx"
    /\ Resume(cursor + 1, faults \cup {i})
    /\ UNCHANGED <<fromBlock, toBlock, run, i, fetch, pending,
                   totalWeiByToken, totalRecords, ledger, inserted, provDet,
                   prevRun>>
    /\ UNCHANGED <<reversed, helperVars>>

\* getTransaction resolves: the total is accumulated and the upsert is issued
TxFound(fromChain) ==
    /\ pc = "tx"
    /\ fromChain \/ CurrentLog.transactionHash \in StrayTxs
    /\ LET log    == CurrentLog
           sender == IF fromChain THEN TxSender[log.transactionHash]
                     ELSE StraySender
           rec    == Record(log, [from |-> sender])
       IN  /\ totalWeiByToken' =
                  Accumulate(totalWeiByToken, rec.tokenSymbol, log.data)
           /\ pending' = rec
           /\ provDet' = (provDet /\ sender = TxSender[log.transactionHash])
    /\ pc' = "db"
    /\ UNCHANGED <<fromBlock, toBlock, run, i, fetch, cursor, totalRecords,
                   ledger, inserted, faults, prevRun>>
    /\ UNCHANGED <<reversed, helperVars>>

\* the upsert resolves
UpsertOk ==
    /\ pc = "db"
    /\ ledger' = Upsert(ledger, pending)
    /\ inserted' = IF BagCardinality(ledger') > BagCardinality(ledger)
                   THEN inserted \cup {pending} ELSE inserted
    /\ totalRecords' = totalRecords + 1
    /\ pending' = NoRecord
    /\ Resume(cursor + 1, faults)
    /\ UNCHANGED <<fromBlock, toBlock, run, i, fetch, totalWeiByToken,
                   provDet, prevRun>>
    /\ UNCHANGED <<reversed, helperVars>>

\* a rejected upsert that is not caught where it is awaited
UpsertErrorUncaught ==
    /\ pc = "db"
    /\ pending' = NoRecord
    /\ pc' = OnBatchError
    /\ cursor' = 0
    /\ faults' = faults \cup {i}
    /\ UNCHANGED <<fromBlock, toBlock, run, i, fetch, totalWeiByToken,
                   totalRecords, ledger, inserted, provDet, prevRun>>
    /\ UNCHANGED <<reversed, helperVars>>

\* the upsert rejects: the inner catch logs it and the loop goes on
UpsertError ==
    /\ pc = "db"
    /\ pending' = NoRecord
    /\ Resume(cursor + 1, faults \cup {i})
    /\ UNCHANGED <<fromBlock, toBlock, run, i, fetch, totalWeiByToken,
                   totalRecords, ledger, inserted, provDet, prevRun>>
    /\ UNCHANGED <<reversed, helperVars>>

\* a batch loop that runs a batch again when one of its getLogs calls failed
SleepDoneRetry ==
    /\ pc = "sleep"
    /\ LoopHead(IF \E r \in RangeSet : InBatch(i, r) /\ fetch[r] = "fail"
                THEN i ELSE i + 1)
    /\ UNCHANGED <<fromBlock, toBlock, run, cursor, pending, totalWeiByToken,
                   totalRecords, ledger, inserted, faults, provDet, prevRun>>
    /\ UNCHANGED <<reversed, helperVars>>

\* sleep(BATCH_DELAY_MS) resolves: next iteration of the batch loop
SleepDone ==
    /\ pc = "sleep"
    /\ LoopHead(i + 1)
    /\ UNCHANGED <<fromBlock, toBlock, run, cursor, pending, totalWeiByToken,
                   totalRecords, ledger, inserted, faults, provDet, prevRun>>
    /\ UNCHANGED <<reversed, helperVars>>

\* no getLogs call, lookup or write of the run has failed so far
NoFailure == faults = {} /\ \A r \in RangeSet : fetch[r] # "fail"

\* the indexer is invoked again over the same range: fresh totals, same table
NextRun ==
    /\ pc = "done"
    /\ run < MaxRuns
    /\ run' = run + 1
    /\ prevRun' = IF NoFailure /\ provDet
                  THEN [ledger |-> ledger, totals |-> totalWeiByToken,
                        records |-> totalRecords, clean |-> TRUE]
                  ELSE NoPrevRun
    /\ pc' = "call"
    /\ i' = 0
    /\ fetch' = [r \in RangeSet |-> "none"]
    /\ cursor' = 0
    /\ totalWeiByToken' = NoTotals
    /\ totalRecords' = 0
    /\ inserted' = {}
    /\ faults' = {}
    /\ provDet' = TRUE
    /\ UNCHANGED <<fromBlock, toBlock, pending, ledger>>
    /\ UNCHANGED <<reversed, helperVars>>

Next ==
    \/ CallIndexRange
    \/ \E r \in RangeSet : SettleOk(r)
    \/ \E r \in RangeSet : SettleFail(r)
    \/ \E r \in RangeSet : SettleLate(r)
    \/ TxThrow
    \/ TxNull
    \/ \E fromChain \in BOOLEAN : TxFound(fromChain)
    \/ UpsertOk
    \/ UpsertError
    \/ SleepDone
    \/ NextRun

Spec == Init /\ [][Next]_vars

----------------------------------------------------------------------------
(* The pure helpers on their own: inputs drawn from bounded sets *)

IndexerIdle ==
    /\ reversed = {}
    /\ fromBlock = FROM_BLOCK
    /\ toBlock = FROM_BLOCK - 1
    /\ run = 1
    /\ pc = "idle"
    /\ i = 0
    /\ fetch = [r \in RangeSet |-> "none"]
    /\ cursor = 0
    /\ pending = NoRecord
    /\ totalWeiByToken = NoTotals
    /\ totalRecords = 0
    /\ ledger = EmptyBag
    /\ inserted = {}
    /\ faults = {}
    /\ provDet = TRUE
    /\ prevRun = NoPrevRun

InitHelpers ==
    /\ IndexerIdle
    /\ pFrom \in 0..MaxBlock
    /\ pTo \in 0..MaxBlock
    /\ pSpan \in 1..MaxSpan
    /\ pSize \in 1..MaxSize
    /\ pAmount = 0
    /\ pDecimals = 0
    /\ pOut = <<"idle">>

CallBuildRanges ==
    /\ pOut = <<"idle">>
    /\ pOut' = <<"ranges", buildRangesForward(pFrom, pTo, pSpan)>>
    /\ UNCHANGED <<pFrom, pTo, pSpan, pSize, pAmount, pDecimals>>
    /\ UNCHANGED indexerVars

CallChunkArray ==
    /\ pOut[1] = "ranges"
    /\ pOut' = <<"chunks", pOut[2], chunkArray(pOut[2], pSize)>>
    /\ UNCHANGED <<pFrom, pTo, pSpan, pSize, pAmount, pDecimals>>
    /\ UNCHANGED indexerVars

NextHelpers == CallBuildRanges \/ CallChunkArray

SpecHelpers == InitHelpers /\ [][NextHelpers]_vars

InitFormat ==
    /\ IndexerIdle
    /\ pFrom = 0 /\ pTo = 0 /\ pSpan = 1 /\ pSize = 1
    /\ pAmount \in 0..MaxAmount
    /\ pDecimals \in 0..MaxDecimals
    /\ pOut = <<"idle">>

\* valueWei.toString() and ethers.formatUnits(valueWei, decimals)
CallFormatUnits ==
    /\ pOut = <<"idle">>
    /\ pOut' = <<"amount", toDecimalString(pAmount), FormatUnits(pAmount, pDecimals)>>
    /\ UNCHANGED <<pFrom, pTo, pSpan, pSize, pAmount, pDecimals>>
    /\ UNCHANGED indexerVars

NextFormat == CallFormatUnits

SpecFormat == InitFormat /\ [][NextFormat]_vars

----------------------------------------------------------------------------
(* One call of indexRange, and the planner on its own, with every awaited
   call settling *)

InitLive == Init \/ InitHelpers

\* a step of one call of indexRange
IndexRangeStep ==
    \/ CallIndexRange
    \/ \E r \in RangeSet : SettleOk(r)
    \/ \E r \in RangeSet : SettleFail(r)
    \/ \E r \in RangeSet : SettleLate(r)
    \/ TxThrow
    \/ TxNull
    \/ \E fromChain \in BOOLEAN : TxFound(fromChain)
    \/ UpsertOk
    \/ UpsertError
    \/ SleepDone

PlannerStep == pc = "idle" /\ NextHelpers

NextLive == IndexRangeStep \/ PlannerStep

\* the steps the call is waiting for: the synchronous code runs on, an
\* awaited getLogs call, lookup or upsert resolves or rejects, the sleep
\* timer fires. A getLogs call nothing awaits any more may stay pending.
Progress ==
    \/ CallIndexRange
    \/ \E r \in RangeSet : SettleFail(r) \/ SettleOk(r)
    \/ TxThrow
    \/ TxNull
    \/ \E fromChain \in BOOLEAN : TxFound(fromChain)
    \/ UpsertError
    \/ UpsertOk
    \/ SleepDone
    \/ PlannerStep

Fairness == WF_vars(Progress)

SpecLive == InitLive /\ [][NextLive]_vars /\ Fairness

----------------------------------------------------------------------------
(* Runs without failures against a deterministic provider that may list the
   logs of a window in either order *)

\* the windows that hold more than one log
ReversibleWindows == {FROM_BLOCK, FROM_BLOCK + BLOCK_SPAN}

InitOrder ==
    /\ reversed \in SUBSET ReversibleWindows
    /\ fromBlock = FROM_BLOCK
    /\ toBlock \in ToBlocks
    /\ run = 1
    /\ pc = "call"
    /\ i = 0
    /\ fetch = [r \in RangeSet |-> "none"]
    /\ cursor = 0
    /\ pending = NoRecord
    /\ totalWeiByToken = NoTotals
    /\ totalRecords = 0
    /\ ledger = EmptyBag
    /\ inserted = {}
    /\ faults = {}
    /\ provDet = TRUE
    /\ prevRun = NoPrevRun
    /\ HelpersIdle

\* every getLogs call, lookup and upsert resolves, lookups from the chain
NextOrder ==
    \/ CallIndexRange
    \/ \E r \in RangeSet : SettleOk(r)
    \/ TxFound(TRUE)
    \/ UpsertOk
    \/ SleepDone
    \/ NextRun

SpecOrder == InitOrder /\ [][NextOrder]_vars

----------------------------------------------------------------------------
(* Properties *)

Keys(table) == {<<row.txHash, row.logIndex>> : row \in Rows(table)}

KeyOf(log) == <<log.transactionHash, log.index>>

\* every row is stored once and no two rows share (txHash, logIndex)
UniqueKeys(table) ==
    /\ \A row \in Rows(table) : CopiesIn(row, table) = 1
    /\ \A a, b \in Rows(table) : SameKey(a, b) => a = b

\* the number a string of decimal digits writes
DigitValue(c) == CHOOSE k \in 0..9 : Digit(k) = c

RECURSIVE ParseDigits(_)
ParseDigits(str) ==
    IF str = <<>> THEN 0
    ELSE 10 * ParseDigits(SubSeq(str, 1, Len(str) - 1))
            + DigitValue(str[Len(str)])

RECURSIVE SumAmounts(_)
SumAmounts(rows) ==
    IF rows = {} THEN 0
    ELSE LET row == CHOOSE x \in rows : TRUE
         IN  ParseDigits(row.amountRaw) + SumAmounts(rows \ {row})

BatchOf(r) == CHOOSE b \in DOMAIN Batches : InBatch(b, r)

\* the logs of batch b the loops reach when no lookup throws: tracked ones in
\* front of the first tracked log that cannot be decoded
Reached(b) ==
    LET logs == Results(b)
    IN  {n \in DOMAIN logs :
            /\ TokenOf(logs[n]) # 0
            /\ \A m \in 1..n : TokenOf(logs[m]) # 0 => ~Malformed(logs[m])}

\* C8: for from <= to and span >= 1 the windows of buildRangesForward are
\* ascending, start at from, end at to, each starts one block after the
\* previous one ends, all but the last hold span blocks, every block of
\* [from, to] lies in exactly one window, there are ceil((to-from+1)/span)
\* windows, and from = to gives the single window [from, from].
Tiles(w, from, to, span) ==
    /\ Len(w) = (to - from + 1 + span - 1) \div span
    /\ w[1].fromBlock = from
    /\ w[Len(w)].toBlock = to
    /\ \A n \in DOMAIN w : w[n].fromBlock <= w[n].toBlock
    /\ \A n \in 2..Len(w) : w[n].fromBlock = w[n - 1].toBlock + 1
    /\ \A n \in 1..(Len(w) - 1) : w[n].toBlock - w[n].fromBlock + 1 = span
    /\ w[Len(w)].toBlock - w[Len(w)].fromBlock + 1 \in 1..span
    /\ \A blk \in from..to :
          Cardinality({n \in DOMAIN w :
                          w[n].fromBlock <= blk /\ blk <= w[n].toBlock}) = 1
    /\ from = to => w = <<[fromBlock |-> from, toBlock |-> from]>>

C8_RangeTiling ==
    (pOut[1] = "ranges" /\ pFrom <= pTo) => Tiles(pOut[2], pFrom, pTo, pSpan)

C8_Witness ==
    /\ pOut[1] = "ranges"
    /\ pFrom < pTo
    /\ pSpan > 1
    /\ Len(pOut[2]) >= 2
    /\ LET last == pOut[2][Len(pOut[2])]
       IN  last.toBlock - last.fromBlock + 1 < pSpan

\* a run that ended with no failed getLogs call, lookup or write and with
\* every lookup answered from the chain, after a previous run of that kind
CleanRerunDone ==
    run > 1 /\ pc = "done" /\ prevRun.clean /\ NoFailure /\ provDet

\* C1: with a deterministic provider and no failures, a second indexRange
\* over the same range leaves the table with the rows the first run left,
\* no two rows share (txHash, logIndex), and it returns the same per-token
\* totals and record count as the first run.
C1_IdempotentRerun ==
    CleanRerunDone =>
        /\ ledger = prevRun.ledger
        /\ UniqueKeys(ledger)
        /\ totalWeiByToken = prevRun.totals
        /\ totalRecords = prevRun.records

C1_Witness ==
    /\ CleanRerunDone
    /\ Cardinality(Rows(ledger)) >= 3
    /\ totalRecords >= 3
    /\ totalWeiByToken["AXS"] > 0
    /\ totalWeiByToken["WETH"] > 0

\* C2: (txHash, logIndex) is a unique key of the table in every reachable
\* state, and no step changes or removes a stored row: an upsert on an
\* existing key leaves the row as it is.
C2_LedgerImmutable ==
    /\ [](UniqueKeys(ledger))
    /\ [][\A row \in Rows(ledger) :
            row \in Rows(ledger') /\ CopiesIn(row, ledger') = 1]_vars

\* a later run has upserted every log again, answered from the chain, while
\* the table keeps the row an earlier run stored with another sender
C2_Witness ==
    /\ run > 1
    /\ pc = "done"
    /\ NoFailure
    /\ provDet
    /\ totalRecords >= 2
    /\ inserted = {}
    /\ \E row \in Rows(ledger) : row.txFrom = GetAddress(StraySender)

\* C10: every stored row has proxyUsed true exactly when its transferFrom
\* is, letter case aside, a known proxy address; its contributor is txFrom
\* when proxyUsed and transferFrom otherwise.
C10_Attribution ==
    \A row \in Rows(ledger) :
        /\ row.proxyUsed =
              (\E n \in DOMAIN PROXY_ADDRESSES :
                    PROXY_ADDRESSES[n].id = row.transferFrom.id)
        /\ row.contributor =
              IF row.proxyUsed THEN row.txFrom ELSE row.transferFrom

C10_Witness ==
    /\ \E row \in Rows(ledger) :
          row.proxyUsed /\ row.contributor # row.transferFrom
    /\ \E row \in Rows(ledger) :
          ~row.proxyUsed /\ row.contributor # row.txFrom

\* C3: outside a pending write, the per-token total of each symbol is the sum
\* of amountRaw over the rows this run newly inserted for that symbol and
\* the record count is the number of those rows; an upsert on an existing
\* key and a failed upsert change neither.
C3_TotalsTrackInserts ==
    pc # "db" =>
        /\ totalRecords = Cardinality(inserted)
        /\ \A sym \in Symbols :
              totalWeiByToken[sym] =
                  SumAmounts({row \in inserted : row.tokenSymbol = sym})

\* C4: at the end of a run, when a window's getLogs succeeded while another
\* window of its batch failed and no lookup or write of the batch failed,
\* the window's transfers are in the table and counted.
C4_BatchIsolation ==
    pc = "done" =>
        \A r \in RangeSet :
            LET b == BatchOf(r)
            IN  ( /\ fetch[r] = "ok"
                  /\ b \notin faults
                  /\ \E q \in RangeSet : InBatch(b, q) /\ fetch[q] = "fail" )
                => \A n \in Reached(b) :
                      Includes(getLogs(r), Results(b)[n])
                          => /\ KeyOf(Results(b)[n]) \in Keys(ledger)
                             /\ totalRecords > 0

\* a batch whose getLogs calls all succeeded and whose lookups and writes
\* all succeeded
BatchClean(b) ==
    /\ b \notin faults
    /\ \A r \in RangeSet : InBatch(b, r) => fetch[r] = "ok"

\* C5: no failure in a batch aborts the scan: indexRange never throws, and
\* when it returns every batch has been visited, every window's getLogs has
\* been issued, and each batch without a failure of its own has its
\* transfers in the table whatever failed in the batches before it.
C5_FailureContainment ==
    /\ pc # "threw"
    /\ pc = "done" =>
          /\ i = Len(Batches) + 1
          /\ \A r \in RangeSet : fetch[r] # "none"
          /\ \A b \in DOMAIN Batches :
                BatchClean(b) =>
                    \A n \in Reached(b) :
                        KeyOf(Results(b)[n]) \in Keys(ledger)

\* a run in which the first batch failed and the tracked log of the second
\* batch was written
C5_Witness ==
    /\ run = 1
    /\ pc = "done"
    /\ Len(Batches) >= 2
    /\ ~BatchClean(1)
    /\ BatchClean(2)
    /\ Reached(2) # {}
    /\ inserted # {}
    /\ \A row \in inserted : row.txHash = "tD"

\* C6: no getLogs call of a batch is issued before every getLogs call of
\* the batches in front of it has settled.
C6_StrictGroupOrder ==
    \A r, q \in RangeSet :
        (BatchOf(r) < BatchOf(q) /\ fetch[q] # "none") => fetch[r] # "pending"

\* C7: at most MAX_CONCURRENCY getLogs calls are issued and not settled.
C7_BoundedConcurrency ==
    Cardinality({r \in RangeSet : fetch[r] = "pending"}) <= MAX_CONCURRENCY

\* C9: a range with from > to is rejected: indexRange does not go on to
\* fetch or to return totals for it.
C9_InvertedRangeRejected ==
    fromBlock > toBlock => pc \in {"call", "threw"}

\* the tokens' addresses, letter case aside
TrackedIds == {TOKENS[n].address.id : n \in DOMAIN TOKENS}

\* the logs of the awaited batch behind log n whose address is a tracked one
Later(n) ==
    {m \in DOMAIN Results(i) :
        m > n /\ Results(i)[m].address.id \in TrackedIds}

\* after log n the loops go on: the next tracked log of the batch's results,
\* if there is one and it decodes, has its transaction looked up
GoesOn(n) ==
    IF Later(n) = {}
    THEN pc' = "sleep"
    ELSE LET m == CHOOSE x \in Later(n) : \A y \in Later(n) : x <= y
         IN  IF Len(Results(i)[m].topics) >= 3
             THEN pc' = "tx" /\ cursor' = m
             ELSE pc' = "sleep"

\* C11: when getTransaction answers null for a log, no row is written, the
\* per-token totals and the record count stay as they are, and the next
\* tracked log of the same window or batch is looked up.
C11_MissingTransactionSkipped ==
    [][TxNull =>
          /\ UNCHANGED <<ledger, inserted, totalWeiByToken, totalRecords>>
          /\ GoesOn(cursor)]_vars

\* the first log of a batch had no transaction and the second is looked up
C11_Witness ==
    /\ run = 1
    /\ pc = "tx"
    /\ cursor = 2
    /\ i \in faults
    /\ totalWeiByToken = NoTotals
    /\ ledger = EmptyBag

\* C12: when an upsert rejects, the error is caught where it is awaited: the
\* table is left as it is and the next tracked log of the same window or
\* batch is looked up.
C12_PersistenceErrorIsolated ==
    [][UpsertError =>
          /\ UNCHANGED <<ledger, inserted, totalRecords>>
          /\ GoesOn(cursor)]_vars

\* the first log's write failed after its amount was accumulated, and the
\* second log is looked up
C12_Witness ==
    /\ run = 1
    /\ pc = "tx"
    /\ cursor = 2
    /\ i \in faults
    /\ totalWeiByToken["AXS"] = 5
    /\ ledger = EmptyBag

\* the chain's logs of the range whose address is a tracked token's
TrackedInRange ==
    {n \in DOMAIN Chain :
        /\ fromBlock <= Chain[n].blockNumber
        /\ Chain[n].blockNumber <= toBlock
        /\ Chain[n].address.id \in TrackedIds}

RECURSIVE SumData(_)
SumData(ns) ==
    IF ns = {} THEN 0
    ELSE LET n == CHOOSE x \in ns : TRUE
         IN  Chain[n].data + SumData(ns \ {n})

\* C13: a log whose address is, letter case aside, no tracked token's has no
\* transaction looked up and no row written, and adds nothing to the totals
\* or the record count.
C13_UntrackedTokenIgnored ==
    /\ pc \in {"tx", "db"} => CurrentLog.address.id \in TrackedIds
    /\ \A row \in Rows(ledger) :
          \E n \in DOMAIN Chain :
              KeyOf(Chain[n]) = <<row.txHash, row.logIndex>>
                  /\ Chain[n].address.id \in TrackedIds
    /\ totalRecords <= Cardinality(TrackedInRange)
    /\ \A n \in DOMAIN TOKENS :
          totalWeiByToken[TOKENS[n].symbol] <=
              SumData({m \in TrackedInRange :
                          Chain[m].address.id = TOKENS[n].address.id})

\* the loops have passed a log of an untracked token and look up the
\* tracked log behind it
C13_Witness ==
    /\ pc = "tx"
    /\ \E m \in 1..(cursor - 1) : Results(i)[m].address.id \notin TrackedIds

IsDigit(c) == \E k \in 0..9 : Digit(k) = c

\* the integer a decimal string stands for once its point is moved
\* `decimals` places to the right; -1 when it has digits below that
ShiftPoint(text, decimals) ==
    LET points == {n \in DOMAIN text : text[n] = "."}
        at     == IF points = {} THEN Len(text) + 1
                  ELSE CHOOSE n \in points : TRUE
        whole  == SubSeq(text, 1, at - 1)
        frac   == SubSeq(text, at + 1, Len(text))
    IN  IF Len(frac) > decimals THEN -1
        ELSE ParseDigits(whole \o frac \o Zeros(decimals - Len(frac)))

\* C14: for every raw amount and decimals count the formatted string is a
\* decimal numeral that, with its point moved decimals places, gives back
\* the raw integer exactly, and amountRaw is the integer's decimal numeral.
C14_AmountFidelity ==
    pOut[1] = "amount" =>
        /\ \A n \in DOMAIN pOut[3] : IsDigit(pOut[3][n]) \/ pOut[3][n] = "."
        /\ Cardinality({n \in DOMAIN pOut[3] : pOut[3][n] = "."}) <= 1
        /\ ShiftPoint(pOut[3], pDecimals) = pAmount
        /\ \A n \in DOMAIN pOut[2] : IsDigit(pOut[2][n])
        /\ ParseDigits(pOut[2]) = pAmount
        /\ (Len(pOut[2]) > 1 => pOut[2][1] # "0")

\* an amount with a whole part, a fraction and trailing zeros
C14_Witness ==
    /\ pOut[1] = "amount"
    /\ pAmount = 110
    /\ pDecimals = 2
    /\ pOut[3] = <<"1", ".", "1">>

FetchFailed(b) == \E r \in RangeSet : InBatch(b, r) /\ fetch[r] = "fail"

BatchKeys(b) == {KeyOf(Results(b)[n]) : n \in DOMAIN Results(b)}

\* no row this run created is of a log of batch b
AbsentFromRun(b) ==
    {<<row.txHash, row.logIndex>> : row \in inserted} \cap BatchKeys(b) = {}

\* a batch one of whose getLogs calls failed has no row written by this run
\* (nothing to compare while no row was written or no call has failed)
FetchFailureAbsent ==
    \/ inserted = {}
    \/ \A r \in DOMAIN fetch : fetch[r] # "fail"
    \/ \A b \in DOMAIN Batches : FetchFailed(b) => AbsentFromRun(b)

\* a failed getLogs call stays failed for the run, and the run writes and
\* counts only while it walks a batch all of whose getLogs calls resolved
FetchFailureUncounted ==
    run' = run =>
        /\ \/ fetch' = fetch
           \/ \A r \in DOMAIN fetch : fetch[r] = "fail" => fetch'[r] = "fail"
        /\ <<totalWeiByToken, totalRecords, inserted>>'
                # <<totalWeiByToken, totalRecords, inserted>>
              => \A r \in DOMAIN fetch : InBatch(i, r) => fetch[r] = "ok"

OneAttempt ==
    run' = run =>
        /\ i' >= i
        /\ pc' = "tx" /\ <<pc, cursor>>' # <<pc, cursor>> =>
              i' = i /\ cursor' > cursor
        /\ \/ fetch' = fetch
           \/ \A r \in DOMAIN fetch :
                 /\ fetch[r] # "none" =>
                       /\ fetch'[r] # "none"
                       /\ fetch'[r] = "pending" => fetch[r] = "pending"
                 /\ fetch[r] = "none" /\ fetch'[r] # "none" =>
                       /\ fetch'[r] = "pending"
                       /\ i' > i
                       /\ \E k \in DOMAIN Ranges :
                             /\ Ranges[k] = r
                             /\ i' = ((k - 1) \div MAX_CONCURRENCY) + 1

\* C16: within one run every window of the planner is passed to getLogs
\* exactly once, in the batch its position determines, and a window or a
\* log whose processing failed is not attempted again in that run.
C16_NoRetry ==
    /\ [](pc = "done" => \A r \in RangeSet : fetch[r] # "none")
    /\ [][OneAttempt]_vars

\* a run has returned after a getLogs call of one batch and a lookup or a
\* write of another one failed
C16_Witness ==
    /\ pc = "done"
    /\ \E r \in RangeSet : fetch[r] = "fail" /\ BatchOf(r) \notin faults
    /\ faults # {}

\* the chain's logs of symbol sym that a run without failed calls accumulates
Accumulated(sym) ==
    {n \in TrackedInRange :
        /\ TOKENS[TokenOf(Chain[n])].symbol = sym
        /\ \E b \in DOMAIN Batches :
              \E m \in Reached(b) : Results(b)[m] = Chain[n]}

\* within a run the totals change only in the step that follows a resolved
\* lookup, and that step adds the log's amount to the entry of the log's
\* symbol in one piece; the steps of the other tasks leave the totals alone
AtomicAccumulation ==
    run' = run =>
        IF pc = "tx" /\ pc' = "db"
        THEN LET sym == TOKENS[TokenOf(CurrentLog)].symbol
             IN  /\ totalWeiByToken'[sym] =
                        totalWeiByToken[sym] + CurrentLog.data
                 /\ \A other \in Symbols \ {sym} :
                        totalWeiByToken'[other] = totalWeiByToken[other]
        ELSE totalWeiByToken' = totalWeiByToken

\* C18: under every interleaving of the tasks of a batch each accumulation
\* into the per-token total is applied in one step, so that the final total
\* of a symbol is the exact sum of the amounts accumulated for it.
C18_NoLostUpdates ==
    /\ [](pc = "done" /\ NoFailure =>
            \A sym \in Symbols :
                totalWeiByToken[sym] = SumData(Accumulated(sym)))
    /\ [][AtomicAccumulation]_vars

\* two amounts were accumulated for AXS and one for WETH in a run in which
\* a getLogs call settled after its batch had been given up
C18_Witness ==
    /\ pc = "done"
    /\ totalWeiByToken = [NoTotals EXCEPT !["AXS"] = 8, !["WETH"] = 7]
    /\ \E r \in RangeSet : fetch[r] = "late"

RECURSIVE Concat(_)
Concat(groups) ==
    IF groups = <<>> THEN <<>>
    ELSE Head(groups) \o Concat(Tail(groups))

Partitions(groups, arr, size) ==
    /\ Concat(groups) = arr
    /\ \A g \in DOMAIN groups : Len(groups[g]) >= 1
    /\ \A g \in 1..(Len(groups) - 1) : Len(groups[g]) = size
    /\ groups # <<>> => Len(groups[Len(groups)]) \in 1..size
    /\ Len(groups) = (Len(arr) + size - 1) \div size

\* C19: for size >= 1 the groups of chunkArray, concatenated in order, are
\* the sequence it was given; no group is empty, every group but the last
\* has size elements and the last has 1..size, so there are ceil(n/size).
C19_ChunkPartition ==
    pOut[1] = "chunks" => Partitions(pOut[3], pOut[2], pSize)

\* several groups, the last one shorter than the others
C19_Witness ==
    /\ pOut[1] = "chunks"
    /\ pSize > 1
    /\ Len(pOut[3]) >= 3
    /\ Len(pOut[3][Len(pOut[3])]) < pSize

\* ceil(ceil((to - from + 1) / span) / size)
GroupCount(from, to, span, size) ==
    ((((to - from + 1) + span - 1) \div span) + size - 1) \div size

\* indexRange is entered with from <= to, or the planner is about to run
Started ==
    \/ pc = "call" /\ fromBlock <= toBlock
    \/ pc = "idle" /\ pOut[1] = "idle"

\* indexRange has returned after GroupCount batches, or the planner has
\* returned its windows and chunkArray has split them into GroupCount groups
Finished ==
    \/ /\ pc = "done"
       /\ Len(Batches) = GroupCount(fromBlock, toBlock, BLOCK_SPAN,
                                    MAX_CONCURRENCY)
       /\ i = Len(Batches) + 1
    \/ /\ pOut[1] = "chunks"
       /\ pFrom <= pTo => Len(pOut[3]) = GroupCount(pFrom, pTo, pSpan, pSize)

\* C20: for from <= to, when every awaited provider and store call resolves
\* or rejects, indexRange returns its totals after
\* ceil(ceil((to - from + 1) / span) / C) batches; buildRangesForward returns
\* a finite sequence, which chunkArray splits into that number of groups.
C20_Termination == Started ~> Finished

\* indexRange has returned after two batches, one of them given up after a
\* failed getLogs call, with a record counted
C20_Witness ==
    /\ pc = "done"
    /\ i = 3
    /\ Len(Batches) = 2
    /\ \E r \in RangeSet : fetch[r] = "fail"
    /\ totalRecords > 0

\* the rows and totals of a run over the range, from the chain alone
ExpectedRows ==
    {Record(Chain[n], [from |-> TxSender[Chain[n].transactionHash]]) :
        n \in TrackedInRange}

ExpectedTotals ==
    [sym \in Symbols |->
        SumData({n \in TrackedInRange :
                    TOKENS[TokenOf(Chain[n])].symbol = sym})]

\* every tracked log of the range can be decoded
Decodable == \A n \in TrackedInRange : ~Malformed(Chain[n])

\* C17: with a deterministic provider and no failure, the table, the totals
\* and the record count at the end of a run are the same whatever the order
\* in which the getLogs calls of a batch settled and the order in which the
\* logs of a window are listed.
C17_OrderIndependence ==
    (pc = "done" /\ Decodable) =>
        /\ ledger = SetToBag(ExpectedRows)
        /\ totalWeiByToken = ExpectedTotals
        /\ totalRecords = Cardinality(TrackedInRange)

\* a run has ended over two windows, logs of a window listed last to
\* first, with three rows written
C17_Witness ==
    /\ pc = "done"
    /\ run = 1
    /\ reversed # {}
    /\ Decodable
    /\ Len(Ranges) = 2
    /\ BagCardinality(ledger) = 3

====
